---- MODULE Spec2Model ----
(***************************************************************************)
(* A model of src/backtrace/runwind.rs of pprof-rs: the lazily built,      *)
(* address-sorted registry of loaded modules (CONTEXTS), the per-frame     *)
(* symbol resolution (Frame::resolve_symbol) run by several threads, and   *)
(* the frame walk (Trace::trace).                                          *)
(*                                                                         *)
(* Rust slices are 0-based; At(s, i) reads the element with Rust index i.  *)
(***************************************************************************)
EXTENDS Integers, Sequences, FiniteSets, TLC

(* ------------------------------ bounds -------------------------------- *)

\* Base addresses of loaded modules range over 1..MaxBase.
MaxBase == 3

\* The ends of text ranges (module-relative) range over 1..MaxEnd.
MaxEnd == 2

\* At most MaxObjs modules are loaded in the process.
MaxObjs == 2

\* Each thread calls resolve_symbol at most MaxCalls times.
MaxCalls == 2

\* The unwinding engine produces at most MaxFrames frames in one walk.
MaxFrames == 3

(* ------------------------------ inputs -------------------------------- *)

Threads == {"t1", "t2"}

MainThread == "t1"

NoThread == "none"

Addrs == 0..(MaxBase + MaxEnd)

\* Range<usize>: a half-open interval, empty when start >= end.
TextRanges == [start : 0..1, end : 1..MaxEnd]

\* What runwind::get_objects() reports of one loaded module.
Modules == [base_addr : 1..MaxBase, text_svma : TextRanges]

\* The subsets of S with at most n elements.
RECURSIVE SubsetsUpTo(_, _)
SubsetsUpTo(S, n) ==
    IF n = 0 THEN {{}}
    ELSE LET smaller == SubsetsUpTo(S, n - 1)
         IN smaller \cup {p \cup {x} : p \in smaller, x \in S}

LoadedSets == SubsetsUpTo(Modules, MaxObjs)

\* Two fixed modules, adjacent in memory, for the runs with two callers.
ModuleA == [base_addr |-> 1, text_svma |-> [start |-> 0, end |-> 2]]

ModuleB == [base_addr |-> 3, text_svma |-> [start |-> 0, end |-> 2]]

ConcLoadedSets == {{}, {ModuleA}, {ModuleA, ModuleB}}

UNKNOWN == "<unknown>"

FunctionNames == {"compute_sum", "outer_fn"}

\* What frames.next() can produce: a record whose function name is present
\* and decodable, a record without a function, a record whose raw_name()
\* fails, the end of the sequence, or an error.
NextOutcomes ==
    [kind : {"named"}, name : FunctionNames]
        \cup [kind : {"absent", "undecodable", "end", "iter_err"}, name : {""}]

NoSymbol == [name |-> "", addr |-> 0]

(* ------------------------------- state -------------------------------- *)

VARIABLES
    loaded,      \* the modules loaded in the process (what get_objects sees)
    regState,    \* the Lazy cell: "uninit", "running", "built", "poisoned"
    initThread,  \* the thread running the Lazy's closure
    pending,     \* the objects the closure's for loop has still to visit
    building,    \* the closure's local vector `contexts`
    failed,      \* the modules whose Context::new returned an error
    CONTEXTS,    \* the published table: <<[base_addr, text_range]>>
    mutex,       \* mutex[i]: the thread holding the guard of CONTEXTS[i]
    pc,          \* each thread's position in resolve_symbol
    addr,        \* self.addr of the frame each thread resolves
    entry,       \* the Rust index idx - 1 of the entry a thread selected, or -1
    svma,        \* the local svma of each thread
    cbCount,     \* how often the current call has invoked cb
    sym,         \* the Symbol handed to cb by the current call
    exit,        \* the place where the current call left the lookup chain
    nextCalls,   \* how often the current call has asked frames.next()
    lastNext,    \* what frames.next() answered last in the current call
    callsLeft,   \* how many calls each thread may still start
    nestedIn,    \* the thread whose call this call interrupts, if any
    tpc,         \* the position of Trace::trace
    produced,    \* the addresses the engine has returned so far
    emitted,     \* the addresses handed to the per-frame callback so far
    asked,       \* how often iter.try_next() has been called
    lastEngine,  \* the last answer of try_next: "none", "frame", "end", "err"
    lastCb       \* the last answer of the per-frame callback: "none", "true", "false"

regVars == <<loaded, regState, initThread, pending, building, failed, CONTEXTS, mutex>>

thrVars ==
    <<pc, addr, entry, svma, cbCount, sym, exit, nextCalls, lastNext, callsLeft, nestedIn>>

traceVars == <<tpc, produced, emitted, asked, lastEngine, lastCb>>

vars == <<regVars, thrVars, traceVars>>

(* --------------------------- pure functions --------------------------- *)

At(s, i) == s[i + 1]

\* Range::contains with the end included (RangeInclusive).
ContainsInclusive(range, x) == range.start <= x /\ x <= range.end

\* Range::contains
Contains(range, x) == range.start <= x /\ x < range.end

\* One entry of the table: (base_addr, text_svma, Mutex<SendContext>); the
\* mutex of entry i is mutex[i].
MakeEntry(obj) == [base_addr |-> obj.base_addr, text_range |-> obj.text_svma]

\* Insert e behind every element whose key is <= its own (a stable sort
\* keeps equal keys in their order of arrival).
RECURSIVE InsertByKey(_, _)
InsertByKey(s, e) ==
    IF s = <<>> THEN <<e>>
    ELSE IF e.base_addr < Head(s).base_addr THEN <<e>> \o s
    ELSE <<Head(s)>> \o InsertByKey(Tail(s), e)

\* contexts.sort_by_key(|(base_addr, _, _)| *base_addr): a stable sort.
RECURSIVE SortByKey(_)
SortByKey(s) ==
    IF s = <<>> THEN <<>>
    ELSE InsertByKey(SortByKey(SubSeq(s, 1, Len(s) - 1)), s[Len(s)])

\* The loop of slice::binary_search_by: halve [base, base + size).
RECURSIVE BsLoop(_, _, _, _)
BsLoop(s, key, base, size) ==
    IF size > 1
    THEN LET half == size \div 2
             mid == base + half
         IN BsLoop(s, key, IF At(s, mid).base_addr > key THEN base ELSE mid, size - half)
    ELSE base

\* CONTEXTS.binary_search_by_key(&self.addr, |(base_addr, _, _)| *base_addr):
\* Ok(idx) of an equal key, or Err(idx) of the insertion point.
BinarySearchByKey(s, key) ==
    IF Len(s) = 0 THEN [ok |-> FALSE, idx |-> 0]
    ELSE LET base == BsLoop(s, key, 0, Len(s))
             k == At(s, base).base_addr
         IN IF k = key THEN [ok |-> TRUE, idx |-> base]
            ELSE [ok |-> FALSE, idx |-> base + (IF k < key THEN 1 ELSE 0)]

\* A name taken from the record as it is, without the fallback.
RecordNameRaw(rec) == rec.name

\* frame.function.as_ref().and_then(|f| f.raw_name().ok())
\*     .map(|s| s.to_string()).unwrap_or_else(|| "<unknown>".to_string())
RecordName(rec) == IF rec.kind = "named" THEN rec.name ELSE UNKNOWN

\* A Symbol whose address is left null.
MakeSymbolNullAddr(name, a) == [name |-> name, addr |-> 0]

\* Symbol { name, addr: self.addr as _ }
MakeSymbol(name, a) == [name |-> name, addr |-> a]

\* All orders in which get_objects() can report the loaded modules.
Enumerations(ms) ==
    {s \in [1..Cardinality(ms) -> ms] : \A i, j \in DOMAIN s : i # j => s[i] # s[j]}

\* The lookup of lines 52-76: which way the call leaves the lookup chain
\* ("exact": Ok(_); "below": Err(0); "out_of_range": the range check fails;
\* "proceed": on to line 77), with the locals idx - 1 and svma.
LookupStep(table, a) ==
    LET r == BinarySearchByKey(table, a)
    IN IF r.ok THEN [exit |-> "exact", entry |-> -1, svma |-> 0]
       ELSE IF r.idx = 0 THEN [exit |-> "below", entry |-> -1, svma |-> 0]
       ELSE LET e == At(table, r.idx - 1)
                sv == a - e.base_addr
            IN IF ~Contains(e.text_range, sv)
               THEN [exit |-> "out_of_range", entry |-> r.idx - 1, svma |-> sv]
               ELSE [exit |-> "proceed", entry |-> r.idx - 1, svma |-> sv]

\* A walk that retries after an engine error.
WalkEndsOnExhaustion(answer) == answer = "end"

\* A walk that ignores the callback's answer.
KeepWalkingAlways(cont) == TRUE

\* A lock that is handed out while held.
MutexAlwaysAvailable(m, i) == TRUE

\* A guard that is leaked instead of dropped.
ReleaseNothing(m, t) == m

\* A table read through a plain flag, which is set while the table is filled.
InitializedEarly(state) == state \in {"running", "built"}

\* A callback fed with the newest frame first.
EmitFirst(seen, a) == <<a>> \o seen

\* cb(&Frame { addr: frame }): the callback sees the frame the engine has
\* just returned, behind the frames it has seen before.
Emit(seen, a) == Append(seen, a)

\* Lazy::force hands out the value only when the closure has returned it.
Initialized(state) == state = "built"

\* while let Ok(Some(frame)) = iter.try_next(): the walk ends on Ok(None)
\* and on Err(_) alike.
WalkEnds(answer) == answer \in {"end", "err"}

\* if !cb(&Frame { addr: frame }) { break; }
KeepWalking(cont) == cont

\* Mutex::lock returns only when no thread holds the guard.
MutexAvailable(m, i) == At(m, i) = NoThread

\* Dropping the MutexGuard `context` when resolve_symbol returns.
ReleaseGuard(m, t) == [i \in DOMAIN m |-> IF m[i] = t THEN NoThread ELSE m[i]]

(* ------------------------------ initial ------------------------------- *)

NoNext == [kind |-> "none", name |-> ""]

RegistryInit(sets) ==
    /\ loaded \in sets
    /\ regState = "uninit"
    /\ initThread = NoThread
    /\ pending = <<>>
    /\ building = <<>>
    /\ failed = {}
    /\ CONTEXTS = <<>>
    /\ mutex = <<>>

ThreadsInit(callers) ==
    /\ pc = [t \in Threads |-> "idle"]
    /\ addr = [t \in Threads |-> 0]
    /\ entry = [t \in Threads |-> -1]
    /\ svma = [t \in Threads |-> 0]
    /\ cbCount = [t \in Threads |-> 0]
    /\ sym = [t \in Threads |-> NoSymbol]
    /\ exit = [t \in Threads |-> "none"]
    /\ nextCalls = [t \in Threads |-> 0]
    /\ lastNext = [t \in Threads |-> NoNext]
    /\ callsLeft = [t \in Threads |-> IF t \in callers THEN MaxCalls ELSE 0]
    /\ nestedIn = [t \in Threads |-> NoThread]

TraceInit ==
    /\ tpc = "idle"
    /\ produced = <<>>
    /\ emitted = <<>>
    /\ asked = 0
    /\ lastEngine = "none"
    /\ lastCb = "none"

\* No module is loaded and no thread resolves symbols: the walk alone.
WalkInit == RegistryInit({{}}) /\ ThreadsInit({}) /\ TraceInit

\* One thread resolves symbols; any set of loaded modules.
Init == RegistryInit(LoadedSets) /\ ThreadsInit({MainThread}) /\ TraceInit

\* Two threads resolve symbols concurrently.
ConcInit == RegistryInit(ConcLoadedSets) /\ ThreadsInit(Threads) /\ TraceInit

(* ------------------------- registry construction ---------------------- *)

\* The call of thread t runs: no call that interrupted it is unfinished.
Running(t) == \A u \in Threads : nestedIn[u] # t

\* Line 52, first dereference of CONTEXTS: Lazy::force takes the closure
\* and starts it (line 11); get_objects() reports the loaded modules.
BeginInit(t) ==
    /\ Running(t)
    /\ pc[t] = "search"
    /\ regState = "uninit"
    /\ regState' = "running"
    /\ initThread' = t
    /\ \E s \in Enumerations(loaded) : pending' = s
    /\ building' = <<>>
    /\ UNCHANGED <<loaded, failed, CONTEXTS, mutex, thrVars, traceVars>>

\* Lines 12-19, one iteration of the for loop: Context::new(..).unwrap()
\* either yields the context, and the entry is pushed, or panics; the panic
\* leaves the Lazy without its closure and without a value.
PushObj(t) ==
    /\ Running(t)
    /\ regState = "running"
    /\ initThread = t
    /\ pending # <<>>
    /\ \E built \in BOOLEAN :
        IF built
        THEN /\ building' = Append(building, MakeEntry(Head(pending)))
             /\ pending' = Tail(pending)
             /\ UNCHANGED <<regState, initThread, failed, pc>>
        ELSE /\ failed' = failed \cup {Head(pending)}
             /\ regState' = "poisoned"
             /\ initThread' = NoThread
             /\ pending' = <<>>
             /\ building' = <<>>
             /\ pc' = [pc EXCEPT ![t] = "panicked"]
    /\ UNCHANGED <<loaded, CONTEXTS, mutex, addr, entry, svma, cbCount, sym, exit,
                   nextCalls, lastNext, callsLeft, nestedIn, traceVars>>

\* Lines 20-21: sort the vector and publish it as the value of the Lazy.
FinishInit(t) ==
    /\ Running(t)
    /\ regState = "running"
    /\ initThread = t
    /\ pending = <<>>
    /\ CONTEXTS' = SortByKey(building)
    /\ mutex' = [i \in 1..Len(building) |-> NoThread]
    /\ regState' = "built"
    /\ initThread' = NoThread
    /\ building' = <<>>
    /\ UNCHANGED <<loaded, pending, failed, thrVars, traceVars>>

\* Line 52 when an earlier run of the closure panicked: Lazy::force panics
\* ("Lazy instance has previously been poisoned").
PoisonedPanic(t) ==
    /\ Running(t)
    /\ pc[t] = "search"
    /\ regState = "poisoned"
    /\ pc' = [pc EXCEPT ![t] = "panicked"]
    /\ UNCHANGED <<regVars, addr, entry, svma, cbCount, sym, exit, nextCalls,
                   lastNext, callsLeft, nestedIn, traceVars>>

(* ---------------------------- resolve_symbol -------------------------- *)

\* The call of t is over: it interrupts nothing any more.
Unnest(t) == [nestedIn EXCEPT ![t] = NoThread]

\* Entry into resolve_symbol with a frame of address a, on top of the call
\* of thread `under` (NoThread: a call of its own).
Enter(t, under) ==
    /\ callsLeft[t] > 0
    /\ nestedIn[t] = NoThread
    /\ nestedIn' = [nestedIn EXCEPT ![t] = under]
    /\ \E a \in Addrs : addr' = [addr EXCEPT ![t] = a]
    /\ pc' = [pc EXCEPT ![t] = "search"]
    /\ entry' = [entry EXCEPT ![t] = -1]
    /\ svma' = [svma EXCEPT ![t] = 0]
    /\ cbCount' = [cbCount EXCEPT ![t] = 0]
    /\ sym' = [sym EXCEPT ![t] = NoSymbol]
    /\ exit' = [exit EXCEPT ![t] = "none"]
    /\ nextCalls' = [nextCalls EXCEPT ![t] = 0]
    /\ lastNext' = [lastNext EXCEPT ![t] = NoNext]
    /\ callsLeft' = [callsLeft EXCEPT ![t] = @ - 1]
    /\ UNCHANGED <<regVars, traceVars>>

\* A caller enters resolve_symbol (a caller that caught the panic of an
\* earlier call may call again).
Call(t) ==
    /\ pc[t] \in {"idle", "returned", "panicked"}
    /\ Enter(t, NoThread)

\* resolve_symbol is entered on the stack of thread t while t is past line
\* 52 of a call of its own: from the callback of that call (pc "cb") or
\* from a signal handler that interrupts it. The new call is activation u;
\* the call of t goes on when u has returned.
NestedCall(t, u) ==
    /\ t # u
    /\ pc[t] \in {"lock", "find", "next", "cb"}
    /\ Running(t)
    /\ nestedIn[t] = NoThread
    /\ pc[u] \in {"idle", "returned"}
    /\ Enter(u, t)

\* cb(&Symbol { name, addr: self.addr as _ }): the callback starts to run.
InvokeCb(t, name, where) ==
    /\ cbCount' = [cbCount EXCEPT ![t] = @ + 1]
    /\ sym' = [sym EXCEPT ![t] = MakeSymbol(name, addr[t])]
    /\ exit' = [exit EXCEPT ![t] = where]
    /\ pc' = [pc EXCEPT ![t] = "cb"]

\* Lines 52-76 with the table built: the binary search and the range check.
Lookup(t) ==
    /\ Running(t)
    /\ pc[t] = "search"
    /\ Initialized(regState)
    /\ LET r == LookupStep(CONTEXTS, addr[t])
       IN /\ entry' = [entry EXCEPT ![t] = r.entry]
          /\ svma' = [svma EXCEPT ![t] = r.svma]
          /\ IF r.exit = "proceed"
             THEN /\ pc' = [pc EXCEPT ![t] = "lock"]
                  /\ UNCHANGED <<cbCount, sym, exit>>
             ELSE InvokeCb(t, UNKNOWN, r.exit)
    /\ UNCHANGED <<regVars, addr, nextCalls, lastNext, callsLeft, nestedIn, traceVars>>

\* Line 77: context.lock().unwrap() blocks until the guard is free.
Lock(t) ==
    /\ Running(t)
    /\ pc[t] = "lock"
    /\ MutexAvailable(mutex, entry[t])
    /\ mutex' = [mutex EXCEPT ![entry[t] + 1] = t]
    /\ pc' = [pc EXCEPT ![t] = "find"]
    /\ UNCHANGED <<loaded, regState, initThread, pending, building, failed, CONTEXTS,
                   addr, entry, svma, cbCount, sym, exit, nextCalls, lastNext,
                   callsLeft, nestedIn, traceVars>>

\* Lines 78-87: context.0.find_frames(svma as u64) succeeds or fails.
FindFrames(t) ==
    /\ Running(t)
    /\ pc[t] = "find"
    /\ \E found \in BOOLEAN :
        IF found
        THEN /\ pc' = [pc EXCEPT ![t] = "next"]
             /\ UNCHANGED <<cbCount, sym, exit>>
        ELSE InvokeCb(t, UNKNOWN, "find_err")
    /\ UNCHANGED <<regVars, addr, entry, svma, nextCalls, lastNext, callsLeft, nestedIn, traceVars>>

\* Lines 88-111, one turn of the loop: frames.next() and the match on it.
\* Ok(None) breaks out of the loop, and the function ends behind it: the
\* guard is dropped and no callback has run.
NextFrame(t) ==
    /\ Running(t)
    /\ pc[t] = "next"
    /\ \E o \in NextOutcomes :
        /\ lastNext' = [lastNext EXCEPT ![t] = o]
        /\ nextCalls' = [nextCalls EXCEPT ![t] = @ + 1]
        /\ IF o.kind = "end"
           THEN /\ pc' = [pc EXCEPT ![t] = "returned"]
                /\ exit' = [exit EXCEPT ![t] = "empty"]
                /\ mutex' = ReleaseGuard(mutex, t)
                /\ nestedIn' = Unnest(t)
                /\ UNCHANGED <<cbCount, sym>>
           ELSE /\ InvokeCb(t, IF o.kind = "iter_err" THEN UNKNOWN ELSE RecordName(o),
                            IF o.kind = "iter_err" THEN "iter_err" ELSE "record")
                /\ UNCHANGED <<mutex, nestedIn>>
    /\ UNCHANGED <<loaded, regState, initThread, pending, building, failed, CONTEXTS,
                   addr, entry, svma, callsLeft, traceVars>>

\* The callback returns and resolve_symbol returns behind it (lines 58, 66,
\* 75, 85, 100, 108); a guard taken at line 77 is dropped here.
Return(t) ==
    /\ Running(t)
    /\ pc[t] = "cb"
    /\ pc' = [pc EXCEPT ![t] = "returned"]
    /\ mutex' = ReleaseGuard(mutex, t)
    /\ nestedIn' = Unnest(t)
    /\ UNCHANGED <<loaded, regState, initThread, pending, building, failed, CONTEXTS,
                   addr, entry, svma, cbCount, sym, exit, nextCalls, lastNext,
                   callsLeft, traceVars>>

\* Every step of a thread but the caller's decision to call (a call that
\* is interrupted by another takes no step until that one has returned).
Step(t) ==
    \/ BeginInit(t)
    \/ PushObj(t)
    \/ FinishInit(t)
    \/ PoisonedPanic(t)
    \/ Lookup(t)
    \/ Lock(t)
    \/ FindFrames(t)
    \/ NextFrame(t)
    \/ Return(t)

Next == \E t \in Threads : Call(t) \/ Step(t)

Spec == Init /\ [][Next]_vars

SpecConc == ConcInit /\ [][Next]_vars

\* The scheduler runs every thread that can take a step; the debug reader
\* and the callbacks return.
SpecConcFair == ConcInit /\ [][Next]_vars /\ \A t \in Threads : WF_vars(Step(t))

\* The scheduler runs the main thread whenever it can take a step; the
\* other thread may stop anywhere, also while it holds a guard.
SpecConcMainFair == ConcInit /\ [][Next]_vars /\ WF_vars(Step(MainThread))

\* Calls may also be entered from callbacks and signal handlers.
ReentrantNext == Next \/ \E t, u \in Threads : NestedCall(t, u)

SpecReentrant == ConcInit /\ [][ReentrantNext]_vars

(* ------------------------------- trace -------------------------------- *)

EngineAnswers == {"frame", "end", "err"}

\* Lines 143-150: read ip, sp and bp from the ucontext, build the register
\* state and the frame iterator over the Trace's unwinder and cache.
TraceBegin ==
    /\ tpc = "idle"
    /\ tpc' = "loop"
    /\ UNCHANGED <<regVars, thrVars, produced, emitted, asked, lastEngine, lastCb>>

\* Lines 151-152: iter.try_next() answers Ok(Some(frame)), Ok(None) or
\* Err(_); on a frame the callback is invoked with Frame { addr: frame }.
\* Every answer but a frame ends the walk, so the last branch is not taken.
TryNext ==
    /\ tpc = "loop"
    /\ asked < MaxFrames + 2
    /\ asked' = asked + 1
    /\ \E answer \in EngineAnswers, a \in Addrs :
        /\ answer = "frame" => Len(produced) < MaxFrames
        /\ answer # "frame" => a = 0
        /\ lastEngine' = answer
        /\ IF WalkEnds(answer)
           THEN /\ tpc' = "done"
                /\ UNCHANGED <<produced, emitted>>
           ELSE IF answer = "frame"
           THEN /\ produced' = Append(produced, a)
                /\ emitted' = Emit(emitted, a)
                /\ tpc' = "cb"
           ELSE UNCHANGED <<tpc, produced, emitted>>
    /\ UNCHANGED <<regVars, thrVars, lastCb>>

\* Lines 152-154: the callback returns; false breaks out of the loop.
FrameCbReturn ==
    /\ tpc = "cb"
    /\ \E cont \in BOOLEAN :
        /\ lastCb' = (IF cont THEN "true" ELSE "false")
        /\ tpc' = (IF KeepWalking(cont) THEN "loop" ELSE "done")
    /\ UNCHANGED <<regVars, thrVars, produced, emitted, asked, lastEngine>>

WalkNext == TraceBegin \/ TryNext \/ FrameCbReturn

SpecWalk == WalkInit /\ [][WalkNext]_vars

\* The caller starts the walk, the engine answers and the callback returns.
SpecWalkFair ==
    WalkInit /\ [][WalkNext]_vars
        /\ WF_vars(TraceBegin) /\ WF_vars(TryNext) /\ WF_vars(FrameCbReturn)

(* ------------------------------- claims ------------------------------- *)

MissExits == {"exact", "below", "out_of_range"}

QueryExits == {"find_err", "iter_err", "record", "empty"}

\* The call of thread t has left the lookup chain: its callback runs or
\* the call has returned.
Resolved(t) == pc[t] \in {"cb", "returned"} /\ exit[t] # "none"

\* Address a lies in the text interval [base + start, base + end) of e.
InText(e, a) ==
    e.base_addr + e.text_range.start <= a /\ a < e.base_addr + e.text_range.end

OutsideAll(a) == \A i \in DOMAIN CONTEXTS : ~InText(CONTEXTS[i], a)

\* Thread t holds the guard it took at line 77.
HoldsGuard(t) ==
    \/ pc[t] \in {"find", "next"}
    \/ pc[t] = "cb" /\ exit[t] \in {"find_err", "iter_err", "record"}

\* C1: a call of resolve_symbol that has returned has invoked the callback
\* exactly once, and no call invokes it more than once, whatever the lookup
\* and the debug query answer.
C1_CallbackExactlyOnce ==
    \A t \in Threads :
        /\ cbCount[t] <= 1
        /\ pc[t] = "returned" => cbCount[t] = 1

\* C2: a call for an address equal to the base address of a (single) module
\* whose text range contains 0 is not rejected by the lookup: it goes on to
\* the guard and the debug query.
C2_BaseAddressReachesQuery ==
    \A t \in Threads : \A i \in DOMAIN CONTEXTS :
        ( /\ Resolved(t)
          /\ CONTEXTS[i].base_addr = addr[t]
          /\ \A j \in DOMAIN CONTEXTS : j # i => CONTEXTS[j].base_addr # addr[t]
          /\ Contains(CONTEXTS[i].text_range, 0) )
        => exit[t] \in QueryExits

\* C3: when the lookup and the debug query succeed and the record sequence
\* is empty, the callback receives the Symbol {"<unknown>", address}.
C3_EmptySequenceYieldsUnknown ==
    \A t \in Threads :
        exit[t] = "empty" => cbCount[t] = 1 /\ sym[t] = MakeSymbol(UNKNOWN, addr[t])

\* C4: for an address outside the text interval of every entry of the built
\* registry (the empty registry and the addresses below the first base
\* included), the call yields the Symbol {"<unknown>", address} on a lookup
\* miss.
C4_OutsideEveryModuleUnknown ==
    \A t \in Threads :
        (regState = "built" /\ Resolved(t) /\ OutsideAll(addr[t]))
        => /\ exit[t] \in MissExits
           /\ cbCount[t] = 1
           /\ sym[t] = MakeSymbol(UNKNOWN, addr[t])

\* C4 witness: a call for an address above a module's base and behind the
\* end of its text range has returned.
C4_Witness ==
    \E t \in Threads :
        /\ pc[t] = "returned"
        /\ exit[t] = "out_of_range"
        /\ OutsideAll(addr[t])
        /\ svma[t] >= At(CONTEXTS, entry[t]).text_range.end

\* C5: a module whose debug context cannot be built is left out and nothing
\* else fails: the registry is not lost, no caller panics, the other loaded
\* modules are registered, and an address of the module left out resolves
\* to "<unknown>".
C5_BuildFailureNonFatal ==
    failed # {} =>
        /\ regState # "poisoned"
        /\ \A t \in Threads : pc[t] # "panicked"
        /\ regState = "built" =>
            {CONTEXTS[i] : i \in DOMAIN CONTEXTS} = {MakeEntry(m) : m \in loaded \ failed}
        /\ \A t \in Threads :
            (Resolved(t) /\ \E m \in failed : InText(MakeEntry(m), addr[t]) /\ OutsideAll(addr[t]))
            => sym[t] = MakeSymbol(UNKNOWN, addr[t])

\* C6: once the per-frame callback has returned false, no further frame is
\* handed to the callback and the engine is not asked again.
C6_NoFrameAfterStop ==
    [][lastCb = "false" => (emitted' = emitted /\ asked' = asked /\ tpc' = "done")]_vars

\* C6 witness: the callback stopped a walk that the engine could have
\* continued.
C6_Witness ==
    /\ tpc = "done"
    /\ lastCb = "false"
    /\ lastEngine = "frame"
    /\ Len(produced) < MaxFrames

\* C7: a started walk ends; an engine error ends it like exhaustion, the
\* callback has seen exactly the frames produced before the error, and
\* nothing is emitted or asked after it.
C7_WalkTerminates ==
    /\ (tpc # "idle") ~> (tpc = "done")
    /\ [](lastEngine \in {"end", "err"} => (tpc = "done" /\ emitted = produced))
    /\ [][lastEngine = "err" => (emitted' = emitted /\ asked' = asked)]_vars

\* C7 witness: the engine failed after it had produced frames.
C7_Witness ==
    /\ tpc = "done"
    /\ lastEngine = "err"
    /\ Len(emitted) >= 1

\* C8: no two threads are inside the debug query of the same entry, and a
\* thread inside a query holds the guard of its own entry and no other.
C8_MutualExclusion ==
    /\ \A t, u \in Threads :
        (t # u /\ HoldsGuard(t) /\ HoldsGuard(u)) => entry[t] # entry[u]
    /\ \A t \in Threads : \A i \in DOMAIN mutex :
        mutex[i] = t <=> (HoldsGuard(t) /\ i = entry[t] + 1)

\* C8 witness: one thread is inside the query of an entry while the other
\* waits for the guard of the same entry.
C8_Witness ==
    \E t, u \in Threads :
        /\ t # u
        /\ pc[t] \in {"find", "next"}
        /\ pc[u] = "lock"
        /\ entry[t] = entry[u]

\* A thread that holds its guard can go on, and a thread that waits for a
\* guard no other thread holds can take it, whatever guards of other
\* entries are held.
NotBlockedByOthers ==
    \A t \in Threads :
        /\ HoldsGuard(t) => ENABLED Step(t)
        /\ ( /\ pc[t] = "lock"
             /\ \A u \in Threads \ {t} : ~(HoldsGuard(u) /\ entry[u] = entry[t]) )
           => ENABLED Lock(t)

\* C9: calls for different modules do not block each other, and every call
\* that waits for a guard gets it and returns.
C9_ConcurrentCallsComplete ==
    /\ []NotBlockedByOthers
    /\ \A t \in Threads : (pc[t] = "lock") ~> (pc[t] = "returned")

\* C9 witness: both threads hold guards, of different entries, at once.
C9_Witness ==
    \E t, u \in Threads :
        /\ t # u
        /\ HoldsGuard(t)
        /\ HoldsGuard(u)
        /\ entry[t] # entry[u]

\* C10: the built table is sorted ascending by base address with no two
\* entries of the same base address.
C10_SortedNoDuplicates ==
    regState = "built" =>
        \A i, j \in DOMAIN CONTEXTS : i < j => CONTEXTS[i].base_addr < CONTEXTS[j].base_addr

\* The table is sorted by base address (equal bases may follow each other).
Sorted(table) ==
    \A i, j \in DOMAIN table : i < j => table[i].base_addr <= table[j].base_addr

\* Thread t is past line 52 in its current or last call.
PastSearch(t) == pc[t] \in {"lock", "find", "next", "cb", "returned"}

\* C11: the closure of CONTEXTS is started only on the untouched Lazy, so at
\* most once; a caller gets past line 52 only with the finished table, which
\* is sorted and holds every loaded module; nothing of a table is visible
\* before, and the finished table never changes.
C11_SingleConstruction ==
    /\ [][(initThread' # initThread /\ initThread' # NoThread) => regState = "uninit"]_vars
    /\ [][regState # "uninit" => regState' # "uninit"]_vars
    /\ [][regState = "built" => (regState' = "built" /\ CONTEXTS' = CONTEXTS)]_vars
    /\ [](regState # "built" => (CONTEXTS = <<>> /\ \A t \in Threads : ~PastSearch(t)))
    /\ [](regState = "built" =>
            /\ Sorted(CONTEXTS)
            /\ Len(CONTEXTS) = Cardinality(loaded)
            /\ {CONTEXTS[i] : i \in DOMAIN CONTEXTS} = {MakeEntry(m) : m \in loaded})

\* C11 witness: both threads are in their first call at line 52 while the
\* closure has pushed one entry and has another to visit.
C11_Witness ==
    /\ regState = "running"
    /\ \A t \in Threads : pc[t] = "search"
    /\ building # <<>>
    /\ pending # <<>>

\* C12: a call whose debug query fails, at find_frames or at the first
\* frames.next(), hands {"<unknown>", address} to the callback once and has
\* released its guard when it has returned.
C12_QueryFailureYieldsUnknown ==
    \A t \in Threads :
        exit[t] \in {"find_err", "iter_err"} =>
            /\ pc[t] \in {"cb", "returned"}
            /\ cbCount[t] = 1
            /\ sym[t] = MakeSymbol(UNKNOWN, addr[t])
            /\ exit[t] = "find_err" => nextCalls[t] = 0
            /\ exit[t] = "iter_err" => nextCalls[t] = 1
            /\ pc[t] = "returned" => \A i \in DOMAIN mutex : mutex[i] # t

\* C12 witness: a call has returned after the record iterator failed.
C12_Witness ==
    \E t \in Threads :
        /\ pc[t] = "returned"
        /\ exit[t] = "iter_err"
        /\ lastNext[t].kind = "iter_err"

\* C13: frames.next() is asked at most once per call, and a call that got
\* a first record yields that record's name when it is present and
\* decodable and "<unknown>" when it is absent or undecodable.
C13_FirstRecordDecides ==
    \A t \in Threads :
        /\ nextCalls[t] <= 1
        /\ exit[t] = "record" =>
            /\ nextCalls[t] = 1
            /\ cbCount[t] = 1
            /\ lastNext[t].kind \in {"named", "absent", "undecodable"}
            /\ lastNext[t].kind = "named" => sym[t] = [name |-> lastNext[t].name, addr |-> addr[t]]
            /\ lastNext[t].kind # "named" => sym[t] = [name |-> UNKNOWN, addr |-> addr[t]]

\* C13 witness: a call has returned "<unknown>" for a first record whose
\* name cannot be decoded.
C13_Witness ==
    \E t \in Threads :
        /\ pc[t] = "returned"
        /\ exit[t] = "record"
        /\ lastNext[t].kind = "undecodable"
        /\ sym[t].name = UNKNOWN

\* Thread t holds no guard.
Guardless(t) == \A i \in DOMAIN mutex : mutex[i] # t

\* C14: a call that ends in a lookup miss never waits for, takes or holds a
\* guard and hands {"<unknown>", address} to its callback; a call for an
\* address in no module's text never reaches line 77 and, once the table is
\* built, returns even if the other thread keeps its guard forever.
C14_MissNeverLocks ==
    /\ [](\A t \in Threads :
            /\ exit[t] \in MissExits =>
                /\ pc[t] \in {"cb", "returned"}
                /\ Guardless(t)
                /\ sym[t] = MakeSymbol(UNKNOWN, addr[t])
            /\ (regState = "built" /\ pc[t] # "idle" /\ OutsideAll(addr[t])) =>
                /\ pc[t] \in {"search", "cb", "returned"}
                /\ Guardless(t)
                /\ ENABLED Step(t) \/ pc[t] = "returned")
    /\ (regState = "built" /\ pc[MainThread] = "search" /\ OutsideAll(addr[MainThread]))
           ~> (pc[MainThread] = "returned" /\ exit[MainThread] \in MissExits)

\* C14 witness: the callback of a lookup miss runs while the other thread
\* holds the guard of every entry of the table.
C14_Witness ==
    \E t, u \in Threads :
        /\ pc[t] = "cb"
        /\ exit[t] \in MissExits
        /\ mutex # <<>>
        /\ \A i \in DOMAIN mutex : mutex[i] = u

\* The entries of the table whose base address is at most a.
AtOrBelow(a) == {i \in DOMAIN CONTEXTS : CONTEXTS[i].base_addr <= a}

\* C16: a call that is past the lookup used the entry with the greatest
\* base address <= its address, and no entry only when there is none such;
\* its svma is the address minus that base and is not negative; and it went
\* on to the guard and the debug query only with svma in the text range.
C16_GreatestBaseAtOrBelow ==
    \A t \in Threads :
        (regState = "built" /\ PastSearch(t)) =>
            IF AtOrBelow(addr[t]) = {}
            THEN entry[t] = -1 /\ exit[t] \in MissExits
            ELSE /\ entry[t] >= 0
                 /\ entry[t] + 1 \in AtOrBelow(addr[t])
                 /\ \A i \in AtOrBelow(addr[t]) :
                       CONTEXTS[i].base_addr <= At(CONTEXTS, entry[t]).base_addr
                 /\ svma[t] = addr[t] - At(CONTEXTS, entry[t]).base_addr
                 /\ svma[t] >= 0
                 /\ (pc[t] \in {"lock", "find", "next"} \/ exit[t] \in QueryExits) <=>
                       ( /\ At(CONTEXTS, entry[t]).text_range.start <= svma[t]
                         /\ svma[t] < At(CONTEXTS, entry[t]).text_range.end )

\* C17: the callback has seen exactly the frames the engine has produced,
\* in the engine's order; the walk is over exactly when the engine has
\* reported its end or an error or the callback has answered false, and
\* nothing is produced or emitted after that.
C17_EmittedIsEnginePrefix ==
    /\ [](/\ Len(emitted) <= Len(produced)
          /\ \A i \in 1..Len(emitted) : emitted[i] = produced[i]
          /\ Len(emitted) = Len(produced))
    /\ [](tpc = "done" <=> (lastEngine \in {"end", "err"} \/ lastCb = "false"))
    /\ [][tpc = "done" => (emitted' = emitted /\ produced' = produced)]_vars
    /\ [][emitted' # emitted =>
            (Len(emitted') = Len(emitted) + 1 /\ SubSeq(emitted', 1, Len(emitted)) = emitted)]_vars

\* C17 witness: a walk of several frames with different addresses was
\* stopped by the callback.
C17_Witness ==
    /\ tpc = "done"
    /\ lastCb = "false"
    /\ Len(emitted) >= 2
    /\ emitted[1] # emitted[2]

\* Call u was entered on the stack of call t, which holds the guard of the
\* entry u waits for.
SelfDeadlock(t, u) ==
    /\ nestedIn[u] = t
    /\ pc[u] = "lock"
    /\ HoldsGuard(t)
    /\ entry[u] = entry[t]

\* C18: the callback of a lookup miss runs without a guard; the callback
\* of a call that took the guard runs with the guard of its entry held; a
\* guard goes only when its call returns, and a call that has returned
\* holds none. So a call entered from the callback (or a signal handler) of
\* a guard's holder for the same entry waits for the guard for ever.
C18_GuardScope ==
    /\ [](\A t \in Threads :
            /\ (pc[t] = "cb" /\ exit[t] \in MissExits) => Guardless(t)
            /\ (pc[t] = "cb" /\ exit[t] \in QueryExits) =>
                   (exit[t] # "empty" /\ At(mutex, entry[t]) = t)
            /\ pc[t] \in {"find", "next"} => At(mutex, entry[t]) = t
            /\ pc[t] \in {"idle", "search", "lock", "returned"} => Guardless(t))
    /\ [][\A t \in Threads : \A i \in DOMAIN mutex :
            (mutex[i] = t /\ mutex'[i] # t) => (pc'[t] = "returned" /\ mutex'[i] = NoThread)]_vars
    /\ [][\A t, u \in Threads : SelfDeadlock(t, u) => SelfDeadlock(t, u)']_vars

\* C18 witness: a call entered from the callback of a first record waits
\* for the guard that the callback's own call holds.
C18_Witness ==
    \E t, u \in Threads :
        /\ SelfDeadlock(t, u)
        /\ pc[t] = "cb"
        /\ exit[t] = "record"

\* C19: whenever the callback has been invoked, the Symbol's address is the
\* address of the frame (not the svma, not the base), and its name is the
\* decoded name of the first record or "<unknown>".
C19_SymbolAddressAndName ==
    \A t \in Threads :
        cbCount[t] >= 1 =>
            /\ sym[t].addr = addr[t]
            /\ \/ sym[t].name = UNKNOWN
               \/ /\ exit[t] = "record"
                  /\ nextCalls[t] = 1
                  /\ lastNext[t].kind = "named"
                  /\ sym[t].name = lastNext[t].name

\* C19 witness: a named Symbol was delivered for a frame inside a module,
\* where the address differs from the svma and from the base.
C19_Witness ==
    \E t \in Threads :
        /\ pc[t] = "cb"
        /\ sym[t].name = "compute_sum"
        /\ sym[t].addr = addr[t]
        /\ svma[t] # addr[t]
        /\ At(CONTEXTS, entry[t]).base_addr # addr[t]

====
